---- MODULE Spec2Model ----
(***************************************************************************)
(* Model of the stronghold client core:                                    *)
(*   - the Snapshot actor (client/src/actors/snapshot.rs), which owns one  *)
(*     in-memory SnapshotState and serves Fill / Read / Write /            *)
(*     Synchronize requests;                                               *)
(*   - the counter record-id derivation and its inverse scan               *)
(*     (client/src/state/secure.rs);                                       *)
(*   - the SecureClient state of one client (client/src/state/secure.rs);  *)
(*   - the name generator alphabetical of the policy macros                *)
(*     (policy/macros/src/lib.rs).                                         *)
(*                                                                         *)
(* The container methods of state/snapshot.rs (add_data, get_state,        *)
(* has_data, write_to_snapshot, read_from_snapshot, synchronize) are not   *)
(* part of the available sources; they are modelled from the written       *)
(* specification (sections 4.4 and 3) and from the way the actor calls     *)
(* them.                                                                   *)
(***************************************************************************)
EXTENDS Integers, Sequences, FiniteSets, TLC

VARIABLES
    state,      \* self.state of the Snapshot actor: ClientId -> triple (partial map)
    disk,       \* the snapshot files: resolved path -> file
    last,       \* the request handled by the last step
    out,        \* the messages the last step sent, the files it read, whether it panicked
    rt,         \* observer of one Fill / Write / Read round trip
    scan,       \* the running call of get_index_from_record_id
    derived,    \* two counter locations and the record ids resolved for them
    client,     \* one SecureClient: keystore, db, client_id, vaults, store
    call,       \* the last SecureClient method called, its argument and result
    hist,       \* history: keys generated, vault ids created, keys handed out
    iter        \* the iterator alphabetical(count) returned and what it yielded

vars == <<state, disk, last, out, rt, scan,
          derived, client, call, hist, iter>>

(***************************************************************************)
(* Value universes.                                                        *)
(***************************************************************************)
None == "none"

Clients == {"c1", "c2"}

Keys == {"k1", "k2"}

\* (HashMap<VaultId, Key>, DbView, Store): the triple a client with a vault
\* exports, and the triple of defaults, which a client that holds nothing
\* exports and which get_state yields for a client without data.
TripleA == [keymap |-> "km1", db |-> "db1", store |-> "st1"]

DefaultTriple == [keymap |-> "empty", db |-> "empty", store |-> "empty"]

Triples == {TripleA, DefaultTriple}

\* Resolved snapshot locations.  "fa" is the default snapshot file of the home
\* directory, "fb" the file named "fb" there, "ro" an explicit path that holds
\* bytes that are no snapshot and cannot be written.
DefaultFile == "fa"

Files == {"fa", "fb", "ro"}

Unwritable == {"ro"}

Filenames == {None, "fb"}

Paths == {None, "ro"}

(***************************************************************************)
(* SnapshotState and the container methods.                                *)
(***************************************************************************)
\* SnapshotState::default(): no client has data.
EmptyState == [c \in {} |-> DefaultTriple]

\* Every value the container can have: a triple for some of the clients.
Containers ==
    UNION {[D -> Triples] : D \in SUBSET Clients}

\* ActorFactory::create: Snapshot::new(SnapshotState::default()).
create == EmptyState

\* add_data(id, data): stage the triple, overwriting a prior entry of id.
add_data(s, id, data) ==
    [c \in (DOMAIN s) \cup {id} |-> IF c = id THEN data ELSE s[c]]

has_data(s, id) == id \in DOMAIN s

\* get_state(id): moves the client's triple out of the state (the caller owns
\* the returned triple); the triple of defaults when the client is absent.
get_state(s, id) ==
    [data  |-> IF id \in DOMAIN s THEN s[id] ELSE DefaultTriple,
     state |-> [c \in (DOMAIN s) \ {id} |-> s[c]]]

NoFile == [kind |-> "none", key |-> None, state |-> EmptyState]

JunkFile == [kind |-> "junk", key |-> None, state |-> EmptyState]

\* The encrypted blob: the serialized state under a key.
SnapFile(k, s) == [kind |-> "snap", key |-> k, state |-> s]

\* Path resolution: an explicit path wins, then the file name in the home
\* directory, then the default file.
get_path(filename, path) ==
    IF path # None THEN path
    ELSE IF filename # None THEN filename
    ELSE DefaultFile

\* write_to_snapshot(filename, path, key): atomically replaces the file by the
\* encrypted state, or fails with an I/O error and leaves the file alone.
write_to_snapshot(s, dk, filename, path, key) ==
    LET f == get_path(filename, path) IN
    IF f \in Unwritable
    THEN [ok |-> FALSE, err |-> "IoFailure", disk |-> dk]
    ELSE [ok |-> TRUE, err |-> "", disk |-> [dk EXCEPT ![f] = SnapFile(key, s)]]

\* read_from_snapshot(filename, path, key): a fresh container from the file;
\* fails when the file is missing, the key does not decrypt it, or the
\* contents are malformed.
read_from_snapshot(dk, filename, path, key) ==
    LET file == dk[get_path(filename, path)] IN
    IF file.kind = "snap" /\ file.key = key
    THEN [ok |-> TRUE, err |-> "", state |-> file.state]
    ELSE [ok |-> FALSE,
          err |-> IF file.kind = "none" THEN "IoFailure" ELSE "BadPasswordOrCorrupt",
          state |-> EmptyState]

\* synchronize(p_other, f_other, key, p_target, k_target): load the other
\* snapshot (the loaded container when no other file is named), take the
\* subject client's triple from it, load the target file under the target
\* key, insert the triple and write the target back under the target key.
\* The call names no client: subject stands for whichever client the method
\* takes as the subject; no argument of the call determines it.
synchronize(s, dk, subject, p_other, f_other, key, p_target, k_target) ==
    LET other == IF p_other = None /\ f_other = None
                 THEN [ok |-> TRUE, err |-> "", state |-> s]
                 ELSE read_from_snapshot(dk, f_other, p_other, key)
        target == read_from_snapshot(dk, None, p_target, k_target)
        triple == get_state(other.state, subject).data
    IN  IF ~other.ok THEN [ok |-> FALSE, err |-> other.err, disk |-> dk]
        ELSE IF ~target.ok THEN [ok |-> FALSE, err |-> target.err, disk |-> dk]
        ELSE write_to_snapshot(add_data(target.state, subject, triple), dk,
                               None, p_target, k_target)

(***************************************************************************)
(* Messages.                                                               *)
(***************************************************************************)
StatusOK == [ok |-> TRUE, text |-> ""]

StatusError(text) == [ok |-> FALSE, text |-> text]

SHResult(kind, status) == [msg |-> kind, status |-> status]

\* The sender of a message (riker's Sender, an Option): None, a requester
\* that takes the reply, or a requester whose try_tell returns Err (it has
\* stopped, its mailbox refuses the message).
Requester == "requester"

Refusing == "refusing"

Senders == {None, Requester, Refusing}

\* The actor's Context, as far as the handlers use it: whether select finds
\* the path of a client's state owner valid.
Contexts == [select_ok : BOOLEAN]

\* ctx.select("/user/internal-{id}/"): the selection of the state owner of id,
\* or Err(InvalidPath).
select(ctx, id) ==
    IF ctx.select_ok THEN [ok |-> TRUE, to |-> id] ELSE [ok |-> FALSE, to |-> None]

\* InternalMsg::ReloadData told to the actor selected at /user/internal-{to}/,
\* with the request's sender handed on as the message's sender.
ReloadData(to, id, data, sender) ==
    [to |-> to, id |-> id, data |-> data, status |-> StatusOK, sender |-> sender]

FillMsg(id, data) == [type |-> "Fill", id |-> id, data |-> data]

WriteMsg(key, filename, path) ==
    [type |-> "Write", key |-> key, filename |-> filename, path |-> path]

ReadMsg(key, filename, path, id, fid) ==
    [type |-> "Read", key |-> key, filename |-> filename, path |-> path,
     id |-> id, fid |-> fid]

SyncMsg(id, key, f_other, p_other, p_target, k_target) ==
    [type |-> "Sync", id |-> id, key |-> key, f_other |-> f_other,
     p_other |-> p_other, p_target |-> p_target, k_target |-> k_target]

FillRequests == {FillMsg(id, d) : id \in Clients, d \in Triples}

WriteRequests == {WriteMsg(k, f, p) : k \in Keys, f \in Filenames, p \in Paths}

\* A filename and a path are given together in a Write only (get_path is the
\* same function in every request).
Named == {<<f, p>> \in Filenames \X Paths : f = None \/ p = None}

ReadRequests ==
    {ReadMsg(k, n[1], n[2], id, fid) :
        k \in Keys, n \in Named, id \in Clients, fid \in Clients \cup {None}}

\* The target of a Synchronize is one of the two files that can be written.
SyncRequests ==
    {SyncMsg(id, k, n[1], n[2], pt, kt) :
        id \in Clients, k \in Keys, n \in Named,
        pt \in Files \ Unwritable, kt \in Keys}

Requests == FillRequests \cup WriteRequests \cup ReadRequests \cup SyncRequests

NoRequest == [type |-> "none"]

\* A handled request as the model records it: the message and its sender.
Envelope(m, sender) ==
    [x \in (DOMAIN m) \cup {"sender"} |-> IF x = "sender" THEN sender ELSE m[x]]

\* What a handler did besides changing the container and the files: the
\* replies the sender took, the replies it refused, the ReloadData told, the
\* client whose state owner select was asked for, the files read, the lines
\* printed, and whether the handler panicked.
NoOut ==
    [replies |-> <<>>, refused |-> <<>>, reloads |-> <<>>, selected |-> <<>>,
     reads |-> {}, printed |-> <<>>, panicked |-> FALSE]

(***************************************************************************)
(* The handlers of Receive<SMsg>::receive.  Each yields the actor's state, *)
(* the files and what was sent.  A panic (an expect on an Err, on a        *)
(* missing sender or on a reply the sender refuses) ends the handler       *)
(* without a reply.  What the handler did to the container and to a file   *)
(* before the panic stays done.                                            *)
(***************************************************************************)
Panic(st, dk, o) ==
    [state |-> st, disk |-> dk,
     out |-> [o EXCEPT !.replies = <<>>, !.panicked = TRUE]]

\* sender.as_ref().expect(..).try_tell(reply, None).expect(..): panics without
\* a sender, and panics when the sender's try_tell returns Err.
TellSender(st, dk, o, sender, reply) ==
    IF sender = None THEN Panic(st, dk, o)
    ELSE IF sender = Refusing THEN Panic(st, dk, [o EXCEPT !.refused = <<reply>>])
    ELSE [state |-> st, disk |-> dk, out |-> [o EXCEPT !.replies = <<reply>>]]

\* Mutant: a client that has staged data keeps it, the new triple is dropped.
FillSnapshot_KeepPrior(s, dk, m, sender) ==
    TellSender(IF has_data(s, m.id) THEN s ELSE add_data(s, m.id, m.data),
               dk, NoOut, sender, SHResult("ReturnFillSnap", StatusOK))

FillSnapshot(s, dk, m, sender) ==
    TellSender(add_data(s, m.id, m.data), dk, NoOut, sender,
               SHResult("ReturnFillSnap", StatusOK))

\* The effective client id of a Read: fid if given, otherwise id.
Cid(m) == IF m.fid # None THEN m.fid ELSE m.id

ReadError(e) ==
    SHResult("ReturnReadSnap",
             StatusError(e \o ", Unable to read snapshot. Please try another password."))

\* Mutant: on a failed read the actor also drops what it had staged.
ReadFromSnapshot_DropOnError(s, dk, ctx, m, sender) ==
    LET internal == select(ctx, m.id)
        cid == Cid(m)
        o == [NoOut EXCEPT !.selected = <<m.id>>]
    IN
    IF ~internal.ok THEN Panic(s, dk, o)
    ELSE IF has_data(s, cid)
    THEN LET g == get_state(s, cid) IN
         [state |-> g.state, disk |-> dk,
          out |-> [o EXCEPT !.reloads = <<ReloadData(internal.to, cid, g.data, sender)>>]]
    ELSE LET r == read_from_snapshot(dk, m.filename, m.path, m.key)
             f == get_path(m.filename, m.path)
         IN  IF r.ok
             THEN LET g == get_state(r.state, cid) IN
                  [state |-> g.state, disk |-> dk,
                   out |-> [o EXCEPT
                              !.reloads = <<ReloadData(internal.to, cid, g.data, sender)>>,
                              !.reads = {f}]]
             ELSE TellSender(EmptyState, dk, [o EXCEPT !.reads = {f}], sender,
                             ReadError(r.err))

\* Mutant: the staged data is not consulted, every Read goes to the file.
ReadFromSnapshot_AlwaysDisk(s, dk, ctx, m, sender) ==
    LET internal == select(ctx, m.id)
        cid == Cid(m)
        o == [NoOut EXCEPT !.selected = <<m.id>>]
        r == read_from_snapshot(dk, m.filename, m.path, m.key)
        f == get_path(m.filename, m.path)
    IN  IF ~internal.ok THEN Panic(s, dk, o)
        ELSE IF r.ok
        THEN LET g == get_state(r.state, cid) IN
             [state |-> g.state, disk |-> dk,
              out |-> [o EXCEPT
                         !.reloads = <<ReloadData(internal.to, cid, g.data, sender)>>,
                         !.reads = {f}]]
        ELSE TellSender(s, dk, [o EXCEPT !.reads = {f}], sender,
                        ReadError(r.err))

\* Mutant: the state owner is selected by the effective id instead of id.
ReadFromSnapshot_SelectCid(s, dk, ctx, m, sender) ==
    LET internal == select(ctx, Cid(m))
        cid == Cid(m)
        o == [NoOut EXCEPT !.selected = <<Cid(m)>>]
    IN
    IF ~internal.ok THEN Panic(s, dk, o)
    ELSE IF has_data(s, cid)
    THEN LET g == get_state(s, cid) IN
         [state |-> g.state, disk |-> dk,
          out |-> [o EXCEPT !.reloads = <<ReloadData(internal.to, cid, g.data, sender)>>]]
    ELSE LET r == read_from_snapshot(dk, m.filename, m.path, m.key)
             f == get_path(m.filename, m.path)
         IN  IF r.ok
             THEN LET g == get_state(r.state, cid) IN
                  [state |-> g.state, disk |-> dk,
                   out |-> [o EXCEPT
                              !.reloads = <<ReloadData(internal.to, cid, g.data, sender)>>,
                              !.reads = {f}]]
             ELSE TellSender(s, dk, [o EXCEPT !.reads = {f}], sender,
                             ReadError(r.err))

\* Mutant: the loaded container is merged into the staged one instead of
\* replacing it.
ReadFromSnapshot_Merge(s, dk, ctx, m, sender) ==
    LET internal == select(ctx, m.id)
        cid == Cid(m)
        o == [NoOut EXCEPT !.selected = <<m.id>>]
    IN
    IF ~internal.ok THEN Panic(s, dk, o)
    ELSE IF has_data(s, cid)
    THEN LET g == get_state(s, cid) IN
         [state |-> g.state, disk |-> dk,
          out |-> [o EXCEPT !.reloads = <<ReloadData(internal.to, cid, g.data, sender)>>]]
    ELSE LET r == read_from_snapshot(dk, m.filename, m.path, m.key)
             f == get_path(m.filename, m.path)
         IN  IF r.ok
             THEN LET g == get_state(r.state, cid) IN
                  [state |-> [c \in (DOMAIN s) \cup (DOMAIN g.state) |->
                                 IF c \in DOMAIN g.state THEN g.state[c] ELSE s[c]],
                   disk |-> dk,
                   out |-> [o EXCEPT
                              !.reloads = <<ReloadData(internal.to, cid, g.data, sender)>>,
                              !.reads = {f}]]
             ELSE TellSender(s, dk, [o EXCEPT !.reads = {f}], sender,
                             ReadError(r.err))

\* The state owner of the request's id is selected before anything else, and
\* the handler panics when it cannot be.  The two branches that tell
\* ReloadData hand the sender on as it is; only the error branch replies to
\* the sender.
ReadFromSnapshot(s, dk, ctx, m, sender) ==
    LET internal == select(ctx, m.id)
        cid == Cid(m)
        o == [NoOut EXCEPT !.selected = <<m.id>>]
    IN
    IF ~internal.ok THEN Panic(s, dk, o)
    ELSE IF has_data(s, cid)
    THEN LET g == get_state(s, cid) IN
         [state |-> g.state, disk |-> dk,
          out |-> [o EXCEPT !.reloads = <<ReloadData(internal.to, cid, g.data, sender)>>]]
    ELSE LET r == read_from_snapshot(dk, m.filename, m.path, m.key)
             f == get_path(m.filename, m.path)
         IN  IF r.ok
             THEN LET g == get_state(r.state, cid) IN
                  \* *self = snapshot, after the client's triple was taken out
                  [state |-> g.state, disk |-> dk,
                   out |-> [o EXCEPT
                              !.reloads = <<ReloadData(internal.to, cid, g.data, sender)>>,
                              !.reads = {f}]]
             ELSE TellSender(s, dk, [o EXCEPT !.reads = {f}], sender,
                             ReadError(r.err))

\* Mutant: the container is not reset after the write.
WriteSnapshot_NoReset(s, dk, m, sender) ==
    LET w == write_to_snapshot(s, dk, m.filename, m.path, m.key) IN
    IF ~w.ok THEN Panic(s, dk, NoOut)
    ELSE TellSender(s, w.disk, NoOut, sender, SHResult("ReturnWriteSnap", StatusOK))

\* Mutant: a failed write is answered with an error status instead of a panic.
WriteSnapshot_ReplyError(s, dk, m, sender) ==
    LET w == write_to_snapshot(s, dk, m.filename, m.path, m.key) IN
    IF ~w.ok
    THEN TellSender(s, dk, NoOut, sender,
                    SHResult("ReturnWriteSnap", StatusError(w.err)))
    ELSE TellSender(EmptyState, w.disk, NoOut, sender,
                    SHResult("ReturnWriteSnap", StatusOK))

\* Mutant: the container is reset before it is written.
WriteSnapshot_ResetFirst(s, dk, m, sender) ==
    LET w == write_to_snapshot(EmptyState, dk, m.filename, m.path, m.key) IN
    IF ~w.ok THEN Panic(s, dk, NoOut)
    ELSE TellSender(EmptyState, w.disk, NoOut, sender,
                    SHResult("ReturnWriteSnap", StatusOK))

\* The file is written and the container reset before the sender is looked at.
WriteSnapshot(s, dk, m, sender) ==
    LET w == write_to_snapshot(s, dk, m.filename, m.path, m.key) IN
    IF ~w.ok THEN Panic(s, dk, NoOut)
    ELSE TellSender(EmptyState, w.disk, NoOut, sender,
                    SHResult("ReturnWriteSnap", StatusOK))

\* println!("No data present") when the container has no data for id.
NoData(s, m) ==
    [NoOut EXCEPT !.printed = IF has_data(s, m.id) THEN <<>>
                              ELSE <<"No data present">>]

\* Mutant: the client the request names is moved out of the coordinator's
\* container.
SynchronizeSnapshot_TakesSubject(s, dk, subject, m, sender) ==
    LET y == synchronize(s, dk, subject, m.p_other, m.f_other, m.key,
                         m.p_target, m.k_target)
    IN  IF ~y.ok THEN Panic(s, dk, NoData(s, m))
        ELSE TellSender(get_state(s, m.id).state, y.disk, NoData(s, m), sender,
                        SHResult("ReturnSynchronizeSnapshot", StatusOK))

\* Mutant: without staged data for id the request is refused with an error
\* status.
SynchronizeSnapshot_ErrorNoData(s, dk, subject, m, sender) ==
    LET y == synchronize(s, dk, subject, m.p_other, m.f_other, m.key,
                         m.p_target, m.k_target)
    IN  IF ~has_data(s, m.id)
        THEN TellSender(s, dk, NoData(s, m), sender,
                        SHResult("ReturnSynchronizeSnapshot",
                                 StatusError("No data present")))
        ELSE IF ~y.ok THEN Panic(s, dk, NoData(s, m))
        ELSE TellSender(s, y.disk, NoData(s, m), sender,
                        SHResult("ReturnSynchronizeSnapshot", StatusOK))

\* id is used for the has_data check only, which prints "No data present";
\* synchronize is called either way and is not given the id: the subject of
\* the merge is not taken from the request.
SynchronizeSnapshot(s, dk, subject, m, sender) ==
    LET y == synchronize(s, dk, subject, m.p_other, m.f_other, m.key,
                         m.p_target, m.k_target)
    IN  IF ~y.ok THEN Panic(s, dk, NoData(s, m))
        ELSE TellSender(s, y.disk, NoData(s, m), sender,
                        SHResult("ReturnSynchronizeSnapshot", StatusOK))

receive(s, dk, ctx, subject, m, sender) ==
    CASE m.type = "Fill"  -> FillSnapshot(s, dk, m, sender)
      [] m.type = "Read"  -> ReadFromSnapshot(s, dk, ctx, m, sender)
      [] m.type = "Write" -> WriteSnapshot(s, dk, m, sender)
      [] m.type = "Sync"  -> SynchronizeSnapshot(s, dk, subject, m, sender)

(***************************************************************************)
(* Actor for Snapshot: recv hands the message and its sender to receive    *)
(* and the handler runs to completion.  ctx and subject are what the       *)
(* request does not determine: the outcome of select, and the client the   *)
(* synchronize method takes as its subject.                                *)
(***************************************************************************)
recv(ctx, subject, m, sender) ==
    LET r == receive(state, disk, ctx, subject, m, sender) IN
    /\ state' = r.state
    /\ disk' = r.disk
    /\ out' = r.out
    /\ last' = Envelope(m, sender)

\* A handler that makes no use of the context or of the subject is run with
\* these.
AnyContext == [select_ok |-> TRUE]

AnySubject == "c1"

(***************************************************************************)
(* SecureClient (state/secure.rs).  The KeyStore (state/key_store.rs) and  *)
(* the DbView of the engine are not part of the available sources; they    *)
(* are modelled from the written specification (sections 3, 4.2 and 6).    *)
(* A key is the number of its generation: Key::random() never repeats.     *)
(***************************************************************************)
VaultIds == {"v1", "v2"}

StoreKeys == {"s1"}

StoreValues == {"x", "y"}

\* Option<Key>.
NoKey == [some |-> FALSE, key |-> 0]

SomeKey(k) == [some |-> TRUE, key |-> k]

\* Result<Key, anyhow::Error>.
Ok(k) == [ok |-> TRUE, key |-> k, err |-> ""]

Err(e) == [ok |-> FALSE, key |-> 0, err |-> e]

\* The return of a method without a result, and an Option<Vec<u8>>.
Unit == [unit |-> TRUE]

Prev(s, key) == [prev |-> IF key \in DOMAIN s THEN s[key] ELSE None]

Upsert(f, x, y) == [z \in (DOMAIN f) \cup {x} |-> IF z = x THEN y ELSE f[z]]

Remove(f, x) == [z \in (DOMAIN f) \ {x} |-> f[z]]

\* KeyStore::new(): no vault has a key.
KeyStore_new == [v \in {} |-> 0]

KeyStore_vault_exists(ks, v) == v \in DOMAIN ks

\* create_key(v): generates a fresh key and stores it for v.
KeyStore_create_key(ks, v, fresh) == [key |-> fresh, store |-> Upsert(ks, v, fresh)]

\* get_key(v) -> Option<Key>: hands the key out by value.  Whether the store
\* keeps its entry is not fixed by the specification: taken says that the
\* entry left the store with the key.
KeyStore_get_key(ks, v, taken) ==
    IF v \in DOMAIN ks
    THEN [key |-> SomeKey(ks[v]), store |-> IF taken THEN Remove(ks, v) ELSE ks]
    ELSE [key |-> NoKey, store |-> ks]

\* insert_key(v, key): upsert.
KeyStore_insert_key(ks, v, k) == Upsert(ks, v, k)

\* DbView::new(): no vault.
DbView_new == [v \in {} |-> 0]

\* init_vault(key, v): an empty vault under the key, or the storage engine's
\* error.
init_vault(db, k, v, init_ok) ==
    IF init_ok
    THEN [ok |-> TRUE, db |-> Upsert(db, v, [key |-> k, records |-> {}])]
    ELSE [ok |-> FALSE, db |-> db]

\* Cache::new(): no entry.
Cache_new == [x \in {} |-> None]

Stores == {Cache_new} \cup {[x \in StoreKeys |-> y] : y \in StoreValues}

\* What a call takes from outside the client: the key Key::random() yields,
\* whether the storage engine initializes the vault, whether the key store's
\* lookup takes the entry out.
Envs(fresh) == [fresh : {fresh}, init_ok : BOOLEAN, taken : BOOLEAN]

new(client_id) ==
    [client_id |-> client_id, vaults |-> {}, store |-> Cache_new,
     keystore |-> KeyStore_new, db |-> DbView_new]

write_to_store(cl, key, data) ==
    [client |-> [cl EXCEPT !.store = Upsert(cl.store, key, data)],
     result |-> Prev(cl.store, key)]

store_delete_item(cl, key) ==
    [client |-> [cl EXCEPT !.store = Remove(cl.store, key)], result |-> Unit]

set_client_id(cl, client_id) ==
    [client |-> [cl EXCEPT !.client_id = client_id], result |-> Unit]

\* Mutant: the vault set is replaced by the one vault.
add_new_vault_Only(cl, vid) ==
    [client |-> [cl EXCEPT !.vaults = {vid}], result |-> Unit]

\* HashSet::insert.
add_new_vault(cl, vid) ==
    [client |-> [cl EXCEPT !.vaults = cl.vaults \cup {vid}], result |-> Unit]

\* Mutant: the whole client is reset.
clear_cache_All(cl) ==
    [client |-> new(cl.client_id), result |-> Unit]

clear_cache(cl) ==
    [client |-> [cl EXCEPT !.vaults = {}], result |-> Unit]

rebuild_cache(cl, id, vaults, store) ==
    [client |-> [cl EXCEPT !.client_id = id, !.vaults = vaults, !.store = store],
     result |-> Unit]

\* Mutant: a vault without a key gets one on the first lookup.
get_key_CreateMissing(cl, vault_id, env) ==
    LET g == KeyStore_get_key(cl.keystore, vault_id, env.taken)
        k == IF g.key.some THEN g.key.key ELSE env.fresh
    IN  [client |-> [cl EXCEPT !.keystore = KeyStore_insert_key(g.store, vault_id, k)],
         result |-> Ok(k)]

\* Mutant: the key is not put back after the lookup.
get_key_NoReinsert(cl, vault_id, env) ==
    LET g == KeyStore_get_key(cl.keystore, vault_id, env.taken) IN
    IF ~g.key.some
    THEN [client |-> [cl EXCEPT !.keystore = g.store], result |-> Err("NotExisting")]
    ELSE [client |-> [cl EXCEPT !.keystore = g.store], result |-> Ok(g.key.key)]

get_key(cl, vault_id, env) ==
    LET g == KeyStore_get_key(cl.keystore, vault_id, env.taken) IN
    IF ~g.key.some
    THEN [client |-> [cl EXCEPT !.keystore = g.store], result |-> Err("NotExisting")]
    ELSE [client |-> [cl EXCEPT !.keystore =
                         KeyStore_insert_key(g.store, vault_id, g.key.key)],
          result |-> Ok(g.key.key)]

\* Mutant: a key is generated and the vault initialized on every call.
get_or_create_key_AlwaysCreate(cl, vault_id, env) ==
    LET c == KeyStore_create_key(cl.keystore, vault_id, env.fresh)
        i == init_vault(cl.db, c.key, vault_id, env.init_ok)
    IN  IF ~i.ok
        THEN [client |-> [cl EXCEPT !.keystore = c.store], result |-> Err("InitVault")]
        ELSE [client |-> [cl EXCEPT
                            !.keystore = KeyStore_insert_key(c.store, vault_id, c.key),
                            !.db = i.db],
              result |-> Ok(c.key)]

get_or_create_key(cl, vault_id, env) ==
    IF ~KeyStore_vault_exists(cl.keystore, vault_id)
    THEN LET c == KeyStore_create_key(cl.keystore, vault_id, env.fresh)
             i == init_vault(cl.db, c.key, vault_id, env.init_ok)
         IN  IF ~i.ok
             \* the ? returns the error; the key create_key stored stays
             THEN [client |-> [cl EXCEPT !.keystore = c.store],
                   result |-> Err("InitVault")]
             ELSE [client |-> [cl EXCEPT
                                 !.keystore = KeyStore_insert_key(c.store, vault_id, c.key),
                                 !.db = i.db],
                   result |-> Ok(c.key)]
    ELSE LET g == KeyStore_get_key(cl.keystore, vault_id, env.taken) IN
         IF ~g.key.some
         THEN [client |-> [cl EXCEPT !.keystore = g.store],
               result |-> Err("KeyStoreError")]
         ELSE [client |-> [cl EXCEPT !.keystore =
                              KeyStore_insert_key(g.store, vault_id, g.key.key)],
               result |-> Ok(g.key.key)]

NoEnv == [fresh |-> 0, init_ok |-> FALSE, taken |-> FALSE]

\* known: the call's vault id was known before the call (to the vault set for
\* add_new_vault, to the key store for the key methods); for clear_cache,
\* that the vault set was not empty.
NoCall == [op |-> "none", arg |-> None, ret |-> Unit, known |-> FALSE, env |-> NoEnv]

NoHist ==
    [n |-> 0, created |-> {}, returned |-> [v \in VaultIds |-> {}]]

DerivedIdle ==
    [pc |-> "idle", a |-> [vault_path |-> <<>>, counter |-> 0],
     b |-> [vault_path |-> <<>>, counter |-> 0], rid_a |-> <<>>, rid_b |-> <<>>]

(***************************************************************************)
(* alphabetical (policy/macros/src/lib.rs).  Strings are sequences of      *)
(* characters.                                                             *)
(***************************************************************************)
radix == 26

\* ('A'..end).collect(): the characters 'A' to 'Z'.
alpha ==
    <<"A", "B", "C", "D", "E", "F", "G", "H", "I", "J", "K", "L", "M",
      "N", "O", "P", "Q", "R", "S", "T", "U", "V", "W", "X", "Y", "Z">>

\* (count as f64).log(radix as f64) as usize: the integer part of the
\* logarithm; the cast of the -inf of count = 0 saturates to 0.
RECURSIVE Log26(_)
Log26(count) == IF count < radix THEN 0 ELSE 1 + Log26(count \div radix)

\* The while loop of the closure: div, index and result after it.  result[k]
\* of the source is result[k + 1] here.
RECURSIVE AlphaLoop(_, _, _, _)
AlphaLoop(div, index, result, digits) ==
    IF div = 0 THEN result
    ELSE LET d == IF index > 0 THEN div - 1 ELSE div
             a_index == d % radix
         IN  AlphaLoop(d \div radix, index + 1,
                       [result EXCEPT ![digits - index + 1] = alpha[a_index + 1]],
                       digits)

\* The closure mapped over 0..count: the string of i.
AlphaItem(i, digits) ==
    AlphaLoop(i, 0, [k \in 1..(digits + 1) |-> "A"], digits)

IterIdle == [pc |-> "idle", count |-> 0, digits |-> 0, i |-> 0, yielded |-> <<>>]

RtIdle ==
    [stage |-> 0, c |-> None, t |-> DefaultTriple, k |-> None, f |-> None,
     clean |-> TRUE, seen |-> {}]

ScanIdle == [pc |-> "idle", vault_path |-> <<>>, record_id |-> <<>>, ctr |-> 0]

\* The requests are handled one at a time; a request is taken once the
\* messages of the previous one have left the actor.
Idle == last = NoRequest

\* The files before the actor's first request: no snapshot was written yet.
InitDisk == [f \in Files |-> IF f \in Unwritable THEN JunkFile ELSE NoFile]

Init ==
    /\ state = create
    /\ disk = InitDisk
    /\ last = NoRequest
    /\ out = NoOut
    /\ rt = RtIdle
    /\ scan = ScanIdle
    /\ derived = DerivedIdle
    /\ client = new("c1")
    /\ call = NoCall
    /\ hist = NoHist
    /\ iter = IterIdle

HandleFill ==
    /\ Idle
    /\ \E m \in FillRequests, sender \in Senders :
          recv(AnyContext, AnySubject, m, sender)
    /\ UNCHANGED <<iter, derived, client, call, hist, rt, scan>>

HandleRead ==
    /\ Idle
    /\ \E ctx \in Contexts, m \in ReadRequests, sender \in Senders :
          recv(ctx, AnySubject, m, sender)
    /\ UNCHANGED <<iter, derived, client, call, hist, rt, scan>>

HandleWrite ==
    /\ Idle
    /\ \E m \in WriteRequests, sender \in Senders :
          recv(AnyContext, AnySubject, m, sender)
    /\ UNCHANGED <<iter, derived, client, call, hist, rt, scan>>

HandleSync ==
    /\ Idle
    /\ \E subject \in Clients, m \in SyncRequests, sender \in Senders :
          recv(AnyContext, subject, m, sender)
    /\ UNCHANGED <<iter, derived, client, call, hist, rt, scan>>

\* The handler returned: the runtime delivers what it told (the reply to
\* the requester, the ReloadData to the client's state owner) and the actor
\* takes its next request.
Deliver ==
    /\ ~Idle
    /\ ~out.panicked
    /\ last' = NoRequest
    /\ out' = NoOut
    /\ UNCHANGED <<iter, derived, client, call, hist, state, disk, rt, scan>>

\* The handler panicked.  The actor takes no further request unless its
\* supervisor builds it anew through ActorFactory::create; whether it does
\* is the supervisor's choice, so the step may never be taken.
Restart ==
    /\ ~Idle
    /\ out.panicked
    /\ state' = create
    /\ last' = NoRequest
    /\ out' = NoOut
    /\ UNCHANGED <<iter, derived, client, call, hist, disk, rt, scan>>

Next ==
    HandleFill \/ HandleRead \/ HandleWrite \/ HandleSync \/ Deliver \/ Restart

Spec == Init /\ [][Next]_vars

(***************************************************************************)
(* The round trip observer.  rt follows one Fill(c, t), the Write(k, f)    *)
(* after it and the Read(k, f, c) after that:                               *)
(*   stage 1  Fill(c, t) was handled and answered;                          *)
(*   stage 2  a Write(k, f) that succeeded was handled after it;            *)
(*   stage 3  Read(k, f, c) was handled after that, c's state owner found.  *)
(* It gives up when a request for c or for f is handled in between.  clean  *)
(* says that the container was not replaced or cleared between the Fill and *)
(* the Write and that no Read between the Write and the Read was served     *)
(* from a file; seen holds the files named between the Fill and the Write.  *)
(***************************************************************************)
ReadFile(m) == get_path(m.filename, m.path)

OtherNamed(m) == m.f_other # None \/ m.p_other # None

ForClient(m, c) ==
    \/ m.type = "Fill" /\ m.id = c
    \/ m.type = "Read" /\ (m.id = c \/ m.fid = c)
    \/ m.type = "Sync" /\ m.id = c

FilesOf(m) ==
    CASE m.type = "Fill" -> {}
      [] m.type \in {"Write", "Read"} -> {ReadFile(m)}
      [] m.type = "Sync" ->
            {m.p_target} \cup
            (IF OtherNamed(m) THEN {get_path(m.f_other, m.p_other)} ELSE {})

\* select returned Err: the only panic of a Read before any file is read.
SelectFailed(m, o) == m.type = "Read" /\ o.panicked /\ o.reads = {}

\* The Read was served from a snapshot file: *self = snapshot replaced the
\* container by the file's.
Loads(m, o) == m.type = "Read" /\ o.reads # {} /\ o.reloads # <<>>

\* The request, handled with the container s and the files dk, replaced or
\* cleared the container: a Read served from a file, or a Write whose
\* write_to_snapshot returned Ok (self.state = SnapshotState::default() is not
\* reached when it returned Err).
Replaces(s, dk, m, o) ==
    \/ /\ m.type = "Write"
       /\ write_to_snapshot(s, dk, m.filename, m.path, m.key).ok
    \/ Loads(m, o)

RtStep(r, s, dk, m, o) ==
    LET start ==
            IF m.type = "Fill" /\ ~o.panicked
            THEN {[RtIdle EXCEPT !.stage = 1, !.c = m.id, !.t = m.data]}
            ELSE {}
        between ==
            IF ~r.clean THEN {RtIdle}
            ELSE IF r.stage = 1 /\ Replaces(s, dk, m, o) THEN {[r EXCEPT !.clean = FALSE]}
            ELSE IF r.stage = 2 /\ Loads(m, o) THEN {[r EXCEPT !.clean = FALSE]}
            ELSE {r}
        noted(R) ==
            {[x EXCEPT !.seen = IF x.stage = 1 THEN x.seen \cup FilesOf(m) ELSE {}] : x \in R}
        cont ==
            CASE r.stage = 1 ->
                    IF ForClient(m, r.c) THEN {RtIdle}
                    ELSE (IF m.type = "Write" /\ ~o.panicked /\ ReadFile(m) \notin r.seen
                          THEN {[r EXCEPT !.stage = 2, !.k = m.key, !.f = ReadFile(m),
                                          !.seen = {}]}
                          ELSE {})
                         \cup noted(between)
              [] r.stage = 2 ->
                    IF /\ m.type = "Read" /\ m.id = r.c /\ m.fid = None
                       /\ m.key = r.k /\ ReadFile(m) = r.f
                       /\ ~SelectFailed(m, o)
                    THEN {[r EXCEPT !.stage = 3]}
                    ELSE IF ForClient(m, r.c) \/ r.f \in FilesOf(m) THEN {RtIdle}
                    ELSE noted(between)
              [] OTHER -> {RtIdle}
    IN  start \cup cont

RoundTripRequests ==
    {m \in Requests :
        /\ m.type \in {"Write", "Read"} => m.path = None
        /\ m.type = "Sync" =>
              /\ m.p_other = None /\ m.f_other = None
              /\ m.p_target = "fb" /\ m.key = m.k_target}

\* The senders of the observed run: one that takes the reply and none.
RoundTripSenders == {Requester, None}

Observed(ctx, subject, m, sender) ==
    /\ Idle
    /\ recv(ctx, subject, m, sender)
    /\ rt' \in RtStep(rt, state, disk, m, out')

RtFill ==
    /\ \E m \in RoundTripRequests \cap FillRequests,
          sender \in RoundTripSenders :
          Observed(AnyContext, AnySubject, m, sender)
    /\ UNCHANGED <<iter, derived, client, call, hist, scan>>

RtRead ==
    /\ \E ctx \in Contexts, m \in RoundTripRequests \cap ReadRequests,
          sender \in RoundTripSenders :
          Observed(ctx, AnySubject, m, sender)
    /\ UNCHANGED <<iter, derived, client, call, hist, scan>>

RtWrite ==
    /\ \E m \in RoundTripRequests \cap WriteRequests,
          sender \in RoundTripSenders :
          Observed(AnyContext, AnySubject, m, sender)
    /\ UNCHANGED <<iter, derived, client, call, hist, scan>>

RtSync ==
    /\ \E subject \in Clients, m \in RoundTripRequests \cap SyncRequests,
          sender \in RoundTripSenders :
          Observed(AnyContext, subject, m, sender)
    /\ UNCHANGED <<iter, derived, client, call, hist, scan>>

RtDeliver ==
    /\ ~Idle
    /\ ~out.panicked
    /\ last' = NoRequest
    /\ out' = NoOut
    /\ rt' = IF rt.stage = 3 THEN RtIdle ELSE rt
    /\ UNCHANGED <<iter, derived, client, call, hist, state, disk, scan>>

\* A restart between the Fill and the Write clears the container.
RtRestart ==
    /\ ~Idle
    /\ out.panicked
    /\ state' = create
    /\ last' = NoRequest
    /\ out' = NoOut
    /\ rt' = IF rt.stage = 3 THEN RtIdle
             ELSE IF rt.stage = 1 THEN [rt EXCEPT !.clean = FALSE]
             ELSE rt
    /\ UNCHANGED <<iter, derived, client, call, hist, disk, scan>>

RoundTripNext ==
    RtFill \/ RtRead \/ RtWrite \/ RtSync \/ RtDeliver \/ RtRestart

RoundTripSpec == Init /\ [][RoundTripNext]_vars

(***************************************************************************)
(* Counter record ids (state/secure.rs).  Strings are sequences of         *)
(* characters.                                                             *)
(***************************************************************************)
DigitChars == <<"0", "1", "2", "3", "4", "5", "6", "7", "8", "9">>

\* Display of an unsigned integer: its decimal digits.
RECURSIVE Decimal(_)
Decimal(n) ==
    IF n < 10 THEN <<DigitChars[n + 1]>>
    ELSE Append(Decimal(n \div 10), DigitChars[(n % 10) + 1])

RECURSIVE DebugItems(_)
DebugItems(v) ==
    IF v = <<>> THEN <<>>
    ELSE IF Len(v) = 1 THEN Decimal(v[1])
    ELSE Decimal(v[1]) \o <<",", " ">> \o DebugItems(Tail(v))

\* Mutant: the bytes are printed without the brackets around them.
DebugVec_Bare(v) == DebugItems(v)

\* {:?} of a Vec<u8>: "[1, 12]".
DebugVec(v) == <<"[">> \o DebugItems(v) \o <<"]">>

FirstRecord == <<"f", "i", "r", "s", "t", "_", "r", "e", "c", "o", "r", "d">>

\* RecordId::load_from_path(data, path): the one-way derivation, taken to be
\* free of collisions: the id stands for the bytes it was derived from.
load_from_path(data, path) == <<data, path>>

derive_record_id(vault_path, ctr) ==
    LET path == IF ctr = 0
                THEN DebugVec(vault_path) \o FirstRecord
                ELSE DebugVec(vault_path) \o Decimal(ctr)
    IN  load_from_path(path, path)

\* The scan's cap, the literal 32_000_000 of get_index_from_record_id, scaled
\* down so that the whole scan can be enumerated.
CounterCap == 11

MaxPathLen == 2

PathBytes == {1, 12}

VaultPaths ==
    UNION {[1..n -> PathBytes] : n \in 0..MaxPathLen}

\* The record ids a caller may ask for: those of counters up to and beyond
\* the cap, of any vault path.
RecordIds ==
    {derive_record_id(v, c) : v \in VaultPaths, c \in 0..(CounterCap + 2)}

\* get_index_from_record_id(vault_path, record_id): let mut ctr = 0.
ScanCall ==
    /\ scan.pc = "idle"
    /\ \E v \in VaultPaths, rid \in RecordIds :
          scan' = [pc |-> "loop", vault_path |-> v, record_id |-> rid, ctr |-> 0]
    /\ UNCHANGED <<iter, derived, client, call, hist, state, disk, last, out, rt>>

\* Mutant: the counter is incremented before the loop is left.
ScanStep_IncrementThenBreak ==
    /\ scan.pc = "loop"
    /\ IF scan.ctr <= CounterCap
       THEN scan' = [scan EXCEPT
                       !.pc = IF scan.record_id = derive_record_id(scan.vault_path, scan.ctr)
                              THEN "done" ELSE "loop",
                       !.ctr = scan.ctr + 1]
       ELSE scan' = [scan EXCEPT !.pc = "done"]
    /\ UNCHANGED <<iter, derived, client, call, hist, state, disk, last, out, rt>>

\* Mutant: the loop excludes the cap (ctr < cap).
ScanStep_ExclusiveCap ==
    /\ scan.pc = "loop"
    /\ IF scan.ctr < CounterCap
       THEN IF scan.record_id = derive_record_id(scan.vault_path, scan.ctr)
            THEN scan' = [scan EXCEPT !.pc = "done"]
            ELSE scan' = [scan EXCEPT !.ctr = scan.ctr + 1]
       ELSE scan' = [scan EXCEPT !.pc = "done"]
    /\ UNCHANGED <<iter, derived, client, call, hist, state, disk, last, out, rt>>

\* One test of the loop condition and, when it holds, one run of the body.
ScanStep ==
    /\ scan.pc = "loop"
    /\ IF scan.ctr <= CounterCap
       THEN IF scan.record_id = derive_record_id(scan.vault_path, scan.ctr)
            THEN scan' = [scan EXCEPT !.pc = "done"]
            ELSE scan' = [scan EXCEPT !.ctr = scan.ctr + 1]
       ELSE scan' = [scan EXCEPT !.pc = "done"]
    /\ UNCHANGED <<iter, derived, client, call, hist, state, disk, last, out, rt>>

\* The value of ctr is returned.
ScanReturn ==
    /\ scan.pc = "done"
    /\ scan' = ScanIdle
    /\ UNCHANGED <<iter, derived, client, call, hist, state, disk, last, out, rt>>

RidNext == ScanCall \/ ScanStep \/ ScanReturn

RidSpec == Init /\ [][RidNext]_vars

(***************************************************************************)
(* resolve_location for counter locations: two locations are resolved and  *)
(* their record ids kept side by side.                                      *)
(***************************************************************************)
\* VaultId::load_from_path(path, path).
derive_vault_id(path) == load_from_path(path, path)

\* Location::Counter { vault_path, counter } -> (VaultId, RecordId).
resolve_location(l) ==
    [vid |-> derive_vault_id(l.vault_path),
     rid |-> derive_record_id(l.vault_path, l.counter)]

CounterLocations ==
    [vault_path : VaultPaths, counter : 0..(CounterCap + 2)]

ResolveCounter ==
    /\ derived.pc = "idle"
    /\ \E a \in CounterLocations, b \in CounterLocations :
          derived' = [pc |-> "done", a |-> a, b |-> b,
                      rid_a |-> resolve_location(a).rid,
                      rid_b |-> resolve_location(b).rid]
    /\ UNCHANGED <<iter, state, disk, last, out, rt, scan,
                   client, call, hist>>

ResolveReturn ==
    /\ derived.pc = "done"
    /\ derived' = DerivedIdle
    /\ UNCHANGED <<iter, state, disk, last, out, rt, scan,
                   client, call, hist>>

DeriveNext == ResolveCounter \/ ResolveReturn

DeriveSpec == Init /\ [][DeriveNext]_vars

\* The byte string a record id was derived from (path.as_bytes(), the data
\* argument of load_from_path).
PathBytesOf(rid) == rid[1]

\* C11: two distinct (vault_path, counter) pairs feed different byte strings
\* to the derivation, so their record ids differ; in particular counter 0 and
\* a counter n > 0 of one vault path; the same pair always yields the same
\* record id.
C11_CounterIdsDistinct ==
    derived.pc = "done" =>
        /\ derived.a # derived.b =>
              /\ PathBytesOf(derived.rid_a) # PathBytesOf(derived.rid_b)
              /\ derived.rid_a # derived.rid_b
        /\ derived.a = derived.b => derived.rid_a = derived.rid_b
        /\ ( /\ derived.a.vault_path = derived.b.vault_path
             /\ derived.a.counter = 0 /\ derived.b.counter > 0 )
              => derived.rid_a # derived.rid_b
        /\ derived.rid_a = derive_record_id(derived.a.vault_path, derived.a.counter)

\* Counter 11 of the empty path and counter 1 of the path [1] were resolved:
\* the digits alone are the same, the record ids differ.
C11_Witness ==
    /\ derived.pc = "done"
    /\ derived.a = [vault_path |-> <<>>, counter |-> 11]
    /\ derived.b = [vault_path |-> <<1>>, counter |-> 1]
    /\ derived.rid_a # derived.rid_b

(***************************************************************************)
(* The methods of one SecureClient, called in any order by its owner.       *)
(***************************************************************************)
MaxKeys == 3

\* The vault ids whose key in ks is the key k.
HoldersOf(ks, k) == {v \in DOMAIN ks : ks[v] = k}

\* The method ran: the client is the one it left, call records it, hist
\* notes the key that was generated (if one was) and the key handed out.
Called(op, arg, known, env, r) ==
    LET made == HoldersOf(r.client.keystore, env.fresh) IN
    /\ client' = r.client
    /\ call' = [op |-> op, arg |-> arg, ret |-> r.result, known |-> known, env |-> env]
    /\ hist' = [n |-> IF made # {} THEN env.fresh ELSE hist.n,
                created |-> hist.created \cup made,
                returned |->
                    IF op \in {"get_key", "get_or_create_key"} /\ r.result.ok
                    THEN [hist.returned EXCEPT ![arg] = @ \cup {r.result.key}]
                    ELSE hist.returned]
    /\ hist'.n <= MaxKeys

WriteToStore ==
    /\ \E key \in StoreKeys, data \in StoreValues :
            Called("write_to_store", key, FALSE, NoEnv, write_to_store(client, key, data))
    /\ UNCHANGED <<iter, state, disk, last, out, rt, scan, derived>>

StoreDeleteItem ==
    /\ \E key \in StoreKeys :
            Called("store_delete_item", key, FALSE, NoEnv, store_delete_item(client, key))
    /\ UNCHANGED <<iter, state, disk, last, out, rt, scan, derived>>

SetClientId ==
    /\ \E id \in Clients :
            Called("set_client_id", id, FALSE, NoEnv, set_client_id(client, id))
    /\ UNCHANGED <<iter, state, disk, last, out, rt, scan, derived>>

AddNewVault ==
    /\ \E vid \in VaultIds :
            Called("add_new_vault", vid, vid \in client.vaults, NoEnv,
                   add_new_vault(client, vid))
    /\ UNCHANGED <<iter, state, disk, last, out, rt, scan, derived>>

ClearCache ==
    /\ Called("clear_cache", None, client.vaults # {}, NoEnv, clear_cache(client))
    /\ UNCHANGED <<iter, state, disk, last, out, rt, scan, derived>>

RebuildCache ==
    /\ \E id \in Clients, vaults \in SUBSET VaultIds, store \in Stores :
            Called("rebuild_cache", id, FALSE, NoEnv,
                   rebuild_cache(client, id, vaults, store))
    /\ UNCHANGED <<iter, state, disk, last, out, rt, scan, derived>>

GetKey ==
    /\ \E vault_id \in VaultIds, env \in Envs(hist.n + 1) :
            Called("get_key", vault_id, vault_id \in DOMAIN client.keystore, env,
                   get_key(client, vault_id, env))
    /\ UNCHANGED <<iter, state, disk, last, out, rt, scan, derived>>

GetOrCreateKey ==
    /\ \E vault_id \in VaultIds, env \in Envs(hist.n + 1) :
            Called("get_or_create_key", vault_id, vault_id \in DOMAIN client.keystore, env,
                   get_or_create_key(client, vault_id, env))
    /\ UNCHANGED <<iter, state, disk, last, out, rt, scan, derived>>

ClientNext ==
    \/ WriteToStore \/ StoreDeleteItem \/ SetClientId
    \/ AddNewVault \/ ClearCache \/ RebuildCache
    \/ GetKey \/ GetOrCreateKey

ClientSpec == Init /\ [][ClientNext]_vars

(***************************************************************************)
(* The iterator of alphabetical(count): the call computes digits and       *)
(* returns the iterator; every next() maps the closure over the next i of  *)
(* 0..count; after count items next() returns None.                        *)
(***************************************************************************)
MaxCount == 32

Alphabetical ==
    /\ iter.pc = "idle"
    /\ \E count \in 0..MaxCount :
          iter' = [pc |-> "iter", count |-> count, digits |-> Log26(count),
                   i |-> 0, yielded |-> <<>>]
    /\ UNCHANGED <<state, disk, last, out, rt, scan,
                   derived, client, call, hist>>

IterNextSome ==
    /\ iter.pc = "iter"
    /\ iter.i < iter.count
    /\ iter' = [iter EXCEPT !.i = iter.i + 1,
                            !.yielded = Append(iter.yielded,
                                               AlphaItem(iter.i, iter.digits))]
    /\ UNCHANGED <<state, disk, last, out, rt, scan,
                   derived, client, call, hist>>

IterNextNone ==
    /\ iter.pc = "iter"
    /\ iter.i = iter.count
    /\ iter' = [iter EXCEPT !.pc = "done"]
    /\ UNCHANGED <<state, disk, last, out, rt, scan,
                   derived, client, call, hist>>

IterDrop ==
    /\ iter.pc = "done"
    /\ iter' = IterIdle
    /\ UNCHANGED <<state, disk, last, out, rt, scan,
                   derived, client, call, hist>>

AlphaNext == Alphabetical \/ IterNextSome \/ IterNextNone \/ IterDrop

AlphaSpec == Init /\ [][AlphaNext]_vars

(***************************************************************************)
(* Properties of the Snapshot actor, checked under Spec.                   *)
(***************************************************************************)
RepliedOK(kind) == out.replies = <<SHResult(kind, StatusOK)>>

\* C2: after a Write whose write_to_snapshot succeeded the container is empty
\* (has_data is false for every client), so a Read of a different file that
\* follows without a Fill goes to that file and can only deliver what the file
\* holds.
C2_WriteThenClear ==
    [][ ( /\ Idle
          /\ last'.type = "Write"
          /\ write_to_snapshot(state, disk, last'.filename, last'.path, last'.key).ok )
        => /\ state' = EmptyState
           /\ \A c \in Clients : ~has_data(state', c)
           /\ \A ctx \in Contexts, m \in ReadRequests, sender \in Senders :
                ReadFile(m) # ReadFile(last') =>
                   LET r == ReadFromSnapshot(state', disk', ctx, m, sender)
                       file == disk'[ReadFile(m)]
                   IN  /\ r.out.reads =
                             IF ctx.select_ok THEN {ReadFile(m)} ELSE {}
                       /\ r.out.reloads # <<>> =>
                            /\ file.kind = "snap" /\ file.key = m.key
                            /\ r.out.reloads[1].data =
                                  get_state(file.state, Cid(m)).data ]_vars

\* A Write succeeded that wrote staged data, and another snapshot file exists.
C2_Witness ==
    /\ last.type = "Write" /\ RepliedOK("ReturnWriteSnap")
    /\ disk[ReadFile(last)].state # EmptyState
    /\ \E f \in Files \ {ReadFile(last)} :
          disk[f].kind = "snap" /\ disk[f].state # EmptyState

\* C3: a Read that goes to the file (the state owner of its client is found,
\* nothing is staged for the effective id) and cannot open it, and whose
\* requester takes the reply, answers the requester with a ReturnReadSnap
\* error, tells no ReloadData and leaves the container and the files as they
\* were.
C3_FailedReadLeavesContainer ==
    [][ ( /\ Idle
          /\ last'.type = "Read"
          /\ last'.sender = Requester
          /\ ~SelectFailed(last', out')
          /\ ~has_data(state, Cid(last'))
          /\ ~read_from_snapshot(disk, last'.filename, last'.path, last'.key).ok )
        => /\ Len(out'.replies) = 1
           /\ out'.replies[1].msg = "ReturnReadSnap"
           /\ ~out'.replies[1].status.ok
           /\ out'.reloads = <<>>
           /\ ~out'.panicked
           /\ state' = state
           /\ disk' = disk ]_vars

\* A Read with the wrong key of an existing snapshot was answered with an
\* error while other data was staged.
C3_Witness ==
    /\ last.type = "Read"
    /\ Len(out.replies) = 1 /\ ~out.replies[1].status.ok
    /\ disk[ReadFile(last)].kind = "snap"
    /\ disk[ReadFile(last)].key # last.key
    /\ state # EmptyState

\* C4 as stated: a Synchronize of client C that names another file A (opened
\* by key) and a target B (opened by k_target), A holding C, and that is
\* answered with success leaves B a snapshot under k_target whose entry for C
\* is C's triple of A and in which every other client B held has the entry it
\* had.
C4_SynchronizeMergeOfSubject ==
    [][ ( /\ Idle
          /\ last'.type = "Sync"
          /\ OtherNamed(last')
          /\ out'.replies = <<SHResult("ReturnSynchronizeSnapshot", StatusOK)>> )
        => LET m  == last'
               A  == disk[get_path(m.f_other, m.p_other)]
               B  == disk[m.p_target]
               B2 == disk'[m.p_target]
           IN  (A.kind = "snap" /\ A.key = m.key /\ has_data(A.state, m.id))
               => /\ B.kind = "snap" /\ B.key = m.k_target
                  /\ B2.kind = "snap" /\ B2.key = m.k_target
                  /\ has_data(B2.state, m.id)
                  /\ B2.state[m.id] = A.state[m.id]
                  /\ \A d \in (DOMAIN B.state) \ {m.id} :
                        has_data(B2.state, d) /\ B2.state[d] = B.state[d] ]_vars

\* A Synchronize between two files under different keys succeeded; the target
\* holds the subject's triple of the other file beside a client the other
\* file does not hold.
C4_Witness ==
    /\ last.type = "Sync" /\ RepliedOK("ReturnSynchronizeSnapshot")
    /\ OtherNamed(last)
    /\ LET A == disk[get_path(last.f_other, last.p_other)]
           B == disk[last.p_target]
       IN  /\ get_path(last.f_other, last.p_other) # last.p_target
           /\ A.kind = "snap" /\ B.kind = "snap" /\ A.key # B.key
           /\ has_data(A.state, last.id)
           /\ has_data(B.state, last.id)
           /\ B.state[last.id] = A.state[last.id]
           /\ \E d \in Clients \ {last.id} :
                 /\ ~has_data(A.state, d)
                 /\ has_data(B.state, d) /\ B.state[d] # A.state[last.id]

\* C5: a Read whose effective client id has staged data reads no file,
\* whatever key, filename and path it names, and is answered with the staged
\* triple, told to the state owner that was selected.
C5_InMemoryRead ==
    [][ (Idle /\ last'.type = "Read" /\ has_data(state, Cid(last')))
        => /\ out'.reads = {}
           /\ out'.replies = <<>>
           /\ disk' = disk
           /\ ~SelectFailed(last', out') =>
                out'.reloads =
                  <<ReloadData(last'.id, Cid(last'), state[Cid(last')], last'.sender)>> ]_vars

\* A Read was served from the staged data although the file it names is no
\* snapshot its key opens.
C5_Witness ==
    /\ last.type = "Read"
    /\ out.reads = {}
    /\ Len(out.reloads) = 1
    /\ out.reloads[1].data = TripleA
    /\ ~read_from_snapshot(disk, last.filename, last.path, last.key).ok

\* C6 as stated: the ReloadData of a Read goes to the state owner of the
\* client whose triple it carries.
C6_ReloadToSameClient ==
    last.type = "Read" =>
        \A i \in 1..Len(out.reloads) : out.reloads[i].to = out.reloads[i].id

\* C6 amended: the ReloadData carries the triple of the effective client (fid
\* if given, otherwise id) and goes to the state owner of the request's id;
\* the two are the same client when no fid is given or fid equals id.
C6_ReloadToRequestId ==
    last.type = "Read" =>
        \A i \in 1..Len(out.reloads) :
            /\ out.reloads[i].to = last.id
            /\ out.reloads[i].id = Cid(last)
            /\ out.reloads[i].sender = last.sender
            /\ (last.fid \in {None, last.id}) => out.reloads[i].to = out.reloads[i].id

\* A Read with a forwarding id of another client delivered that client's data.
C6_Witness ==
    /\ last.type = "Read"
    /\ last.fid # None /\ last.fid # last.id
    /\ Len(out.reloads) = 1
    /\ out.reloads[1].data = TripleA

\* C7 as stated: every handled request results in exactly one message that
\* answers the requester (a reply, or the ReloadData forwarded with the
\* requester as its sender).
C7_AlwaysOneReply ==
    ~Idle => Len(out.replies) + Len(out.reloads) = 1

\* C7 amended: a request results in exactly one such message, a success
\* status or a textual error status, unless the handler panics, and then it
\* results in none.  The handler panics when the file operation of a Write or
\* Synchronize fails, when the state owner of a Read cannot be selected, and
\* when a request comes to a reply that it has no sender for or that the
\* sender refuses (every Fill, Write and Synchronize, and a Read whose file
\* cannot be opened); a Read that delivers a ReloadData hands the sender on as
\* it is.
C7_OneReplyUnlessPanic ==
    ~Idle =>
        IF out.panicked
        THEN /\ out.replies = <<>> /\ out.reloads = <<>>
             /\ \/ /\ last.type = "Write"
                   /\ ~write_to_snapshot(state, disk, last.filename, last.path, last.key).ok
                \/ /\ last.type = "Sync"
                   /\ \A subject \in Clients :
                         ~synchronize(state, disk, subject, last.p_other,
                                      last.f_other, last.key, last.p_target,
                                      last.k_target).ok
                \/ SelectFailed(last, out)
                \/ /\ last.sender # Requester
                   /\ last.type = "Read" =>
                         ~read_from_snapshot(disk, last.filename, last.path, last.key).ok
        ELSE /\ Len(out.replies) + Len(out.reloads) = 1
             /\ out.refused = <<>>
             /\ \A i \in 1..Len(out.replies) :
                   \/ out.replies[i].status = StatusOK
                   \/ ~out.replies[i].status.ok /\ out.replies[i].status.text # ""
             /\ (last.type = "Write") =>
                   write_to_snapshot(state, disk, last.filename, last.path, last.key).ok
             /\ (last.sender # Requester) => (last.type = "Read" /\ Len(out.reloads) = 1)

\* A Write to a path that cannot be written was handled.
C7_Witness ==
    /\ last.type = "Write"
    /\ last.sender = Requester
    /\ out.panicked
    /\ ReadFile(last) \in Unwritable

\* C15: Fill(C, T) of a requester that takes the reply sets the container's entry of C to T,
\* replacing what was staged for C, keeps the entry of every other client,
\* touches no file and answers the requester with ReturnFillSnap OK.
C15_FillFrame ==
    [][ (Idle /\ last'.type = "Fill" /\ last'.sender = Requester)
        => /\ DOMAIN state' = (DOMAIN state) \cup {last'.id}
           /\ state'[last'.id] = last'.data
           /\ \A c \in (DOMAIN state) \ {last'.id} : state'[c] = state[c]
           /\ out' = [NoOut EXCEPT !.replies = <<SHResult("ReturnFillSnap", StatusOK)>>]
           /\ disk' = disk ]_vars

\* A Fill was handled for one client while the other client holds a different
\* triple.
C15_Witness ==
    /\ last.type = "Fill" /\ RepliedOK("ReturnFillSnap")
    /\ state[last.id] = last.data
    /\ \E d \in Clients \ {last.id} : has_data(state, d) /\ state[d] # last.data

\* What a Synchronize does to the files and what it tells does not depend on
\* the container beyond has_data of the request's client: any container with
\* the same has_data gives the same files and the same messages.
OnlyHasData(m, sender) ==
    \A subject \in Clients, s2 \in Containers :
        has_data(s2, m.id) = has_data(state, m.id) =>
            LET a == SynchronizeSnapshot(state, disk, subject, m, sender)
                b == SynchronizeSnapshot(s2, disk, subject, m, sender)
            IN  a.disk = b.disk /\ a.out = b.out

\* C16 as stated: the container is the same after a Synchronize request,
\* successful or failed, as before it, and the has_data check is the only use
\* the request makes of the container.
C16_SynchronizeKeepsContainer ==
    [][ (Idle /\ last'.type = "Sync")
        => /\ state' = state
           /\ OnlyHasData(last', last'.sender) ]_vars

\* C16 amended: the container is the same after the Synchronize handler as
\* before it, whether synchronize succeeded, failed or the reply could not be
\* told (the handler then panics with the container untouched).  When the
\* request names another file the has_data check is the only use of the
\* container; when it names none, synchronize reads the container as the
\* source of the merge.
C16_SynchronizeReadsContainerOnly ==
    [][ (Idle /\ last'.type = "Sync")
        => /\ state' = state
           /\ OtherNamed(last') => OnlyHasData(last', last'.sender) ]_vars

\* A Synchronize of a staged client from another file succeeded and the
\* container still holds that client and another one.
C16_Witness ==
    /\ last.type = "Sync" /\ RepliedOK("ReturnSynchronizeSnapshot")
    /\ OtherNamed(last)
    /\ has_data(state, last.id)
    /\ \E d \in Clients \ {last.id} : has_data(state, d)

\* C18: a Read that goes to the file (the state owner of its client is found,
\* nothing is staged for the effective id) and opens it replaces the container
\* by the loaded one (less the triple it hands out): every entry afterwards is an
\* entry of the file, whatever was staged before.
C18_DiskReadReplaces ==
    [][ ( /\ Idle
          /\ last'.type = "Read"
          /\ ~SelectFailed(last', out')
          /\ ~has_data(state, Cid(last'))
          /\ read_from_snapshot(disk, last'.filename, last'.path, last'.key).ok )
        => LET file == disk[ReadFile(last')] IN
           /\ out'.reads = {ReadFile(last')}
           /\ DOMAIN state' = (DOMAIN file.state) \ {Cid(last')}
           /\ \A c \in DOMAIN state' : state'[c] = file.state[c]
           /\ \A c \in (DOMAIN state) \ (DOMAIN file.state) : ~has_data(state', c)
           /\ disk' = disk ]_vars

\* A Read was served from a snapshot file that holds both clients: the
\* container now holds the file's entry of the other client.
C18_Witness ==
    /\ last.type = "Read"
    /\ out.reads = {ReadFile(last)} /\ Len(out.reloads) = 1
    /\ LET file == disk[ReadFile(last)] IN
          /\ has_data(file.state, Cid(last))
          /\ \E d \in Clients \ {Cid(last)} :
                /\ has_data(file.state, d) /\ has_data(state, d)
                /\ state[d] = file.state[d]

\* C19: a Synchronize for a client without staged data is not aborted: the
\* handler prints "No data present", synchronize is called with the request's
\* paths and keys, and the requester is answered with success when that call
\* succeeds.
C19_SynchronizeWithoutData ==
    [][ (Idle /\ last'.type = "Sync" /\ ~has_data(state, last'.id))
        => \E subject \in Clients :
              LET m == last'
                  y == synchronize(state, disk, subject, m.p_other, m.f_other,
                                   m.key, m.p_target, m.k_target)
              IN  /\ out'.printed = <<"No data present">>
                  /\ disk' = y.disk
                  /\ (y.ok /\ m.sender = Requester) =>
                        out'.replies =
                           <<SHResult("ReturnSynchronizeSnapshot", StatusOK)>> ]_vars

\* A Synchronize for a client without staged data succeeded and wrote the
\* target with the client's triple of the other file.
C19_Witness ==
    /\ last.type = "Sync" /\ RepliedOK("ReturnSynchronizeSnapshot")
    /\ ~has_data(state, last.id)
    /\ OtherNamed(last)
    /\ get_path(last.f_other, last.p_other) # last.p_target
    /\ LET B == disk[last.p_target] IN
          B.kind = "snap" /\ has_data(B.state, last.id) /\ B.state[last.id] = TripleA

(***************************************************************************)
(* Properties of the counter scan, checked under RidSpec.                  *)
(***************************************************************************)
Found(c) == scan.record_id = derive_record_id(scan.vault_path, c)

\* C9: for a record id derived from the vault path and a counter c below the
\* cap the scan returns c; it tries the counters in order, so no counter
\* before the returned one derives the record id.
C9_CounterInverse ==
    /\ scan.pc = "done" =>
          \A c \in 0..(CounterCap - 1) : Found(c) => scan.ctr = c
    /\ scan.pc \in {"loop", "done"} =>
          \A c \in 0..(scan.ctr - 1) : c <= CounterCap => ~Found(c)

\* The scan returned the two-digit counter 10 of a two-byte vault path.
C9_Witness ==
    /\ scan.pc = "done"
    /\ scan.vault_path = <<1, 12>>
    /\ scan.ctr = 10
    /\ Found(10)

\* C10 as stated: when no counter of 0..cap derives the record id the scan
\* returns the cap, and the cap is not returned for a record id that was
\* found.
C10_NotFoundReturnsCap ==
    scan.pc = "done" =>
        /\ (\A c \in 0..CounterCap : ~Found(c)) => scan.ctr = CounterCap
        /\ (\E c \in 0..CounterCap : Found(c)) => scan.ctr # CounterCap

\* C10 amended: the scan ends, and when no counter of 0..cap derives the
\* record id it returns cap + 1, a value it returns in no other case; a found
\* record id returns its counter, which is at most the cap.
C10_NotFoundReturnsCapPlusOne ==
    /\ scan.pc \in {"loop", "done"} => scan.ctr <= CounterCap + 1
    /\ scan.pc = "loop" => ENABLED ScanStep
    /\ scan.pc = "done" =>
          /\ (\A c \in 0..CounterCap : ~Found(c)) <=> scan.ctr = CounterCap + 1
          /\ (\E c \in 0..CounterCap : Found(c)) => (scan.ctr <= CounterCap /\ Found(scan.ctr))

\* The scan ended without a match for the record id of a counter beyond the
\* cap.
C10_Witness ==
    /\ scan.pc = "done"
    /\ scan.ctr = CounterCap + 1
    /\ Found(CounterCap + 1)

(***************************************************************************)
(* Properties of the round trip, checked under RoundTripSpec.              *)
(***************************************************************************)
\* C1 as stated: Fill(c, t), then Write(k, f), then Read(k, f, c), with no
\* request for c or f handled in between, delivers a ReloadData for c that
\* carries t.
C1_RoundTripAsStated ==
    rt.stage = 3 => out.reloads = <<ReloadData(rt.c, rt.c, rt.t, last.sender)>>

\* C1 amended: the same, provided also that the Fill and the Write are
\* answered with success, that the state owner of c is found for the Read,
\* that the container is not replaced or cleared between the Fill and the
\* Write (by a Write, by a Read served from a file, or by a restart of the
\* actor after a panic) and that no Read between the Write and the Read is
\* served from a file.  The Read is then served from the file f.
C1_RoundTrip ==
    (rt.stage = 3 /\ rt.clean) =>
        /\ out.reloads = <<ReloadData(rt.c, rt.c, rt.t, last.sender)>>
        /\ out.replies = <<>>
        /\ out.reads = {rt.f}
        /\ disk[rt.f].kind = "snap" /\ disk[rt.f].key = rt.k
        /\ has_data(disk[rt.f].state, rt.c) /\ disk[rt.f].state[rt.c] = rt.t

\* A round trip through the file named "fb" delivered the filled triple; the
\* other client had been filled in between and was written with it.
C1_Witness ==
    /\ rt.stage = 3 /\ rt.clean
    /\ rt.f = "fb"
    /\ Len(out.reloads) = 1 /\ out.reloads[1].data = rt.t
    /\ rt.t = TripleA
    /\ state # EmptyState

(***************************************************************************)
(* Properties of the SecureClient, checked under ClientSpec.                *)
(***************************************************************************)
KeyCall(c) == c.op \in {"get_key", "get_or_create_key"}

\* C12: add_new_vault(v) makes v a member of vaults and changes nothing else;
\* for a v that is a member already (added before, whatever was added since)
\* the whole client stays as it was.
C12_AddNewVaultIdempotent ==
    [][ call'.op = "add_new_vault"
        => LET v == call'.arg IN
           /\ v \in client'.vaults
           /\ client' = [client EXCEPT !.vaults = client.vaults \cup {v}]
           /\ v \in client.vaults => client' = client
           /\ hist' = hist ]_vars

\* add_new_vault was called for a vault that was a member already, the other
\* vault being a member too.
C12_Witness ==
    /\ call.op = "add_new_vault" /\ call.known
    /\ client.vaults = VaultIds
    /\ client.keystore # KeyStore_new

\* C13: get_key(v) for a vault id no key was ever created for fails with
\* NotExisting, returns no key and leaves the client as it was; get_key never
\* returns a key for such a vault id.
C13_GetKeyNotExisting ==
    [][ call'.op = "get_key"
        => /\ call'.arg \notin hist.created
              => /\ call'.ret = Err("NotExisting")
                 /\ client' = client
                 /\ hist' = hist
           /\ call'.ret.ok => call'.arg \in hist.created ]_vars

\* get_key failed for a vault without a key while the other vault has one.
C13_Witness ==
    /\ call.op = "get_key"
    /\ call.ret = Err("NotExisting")
    /\ call.arg \notin hist.created
    /\ hist.created # {}
    /\ client.keystore # KeyStore_new

\* C14: get_or_create_key(v) generates a key and initializes the vault in the
\* db only when the key store does not know v; for a known v it returns the
\* key the store holds and generates nothing.  Every key get_key and
\* get_or_create_key hand out for v is therefore the same key.
C14_GetOrCreateKey ==
    [][ KeyCall(call')
        => LET v == call'.arg IN
           /\ v \in DOMAIN client.keystore
              => /\ call'.ret = Ok(client.keystore[v])
                 /\ client' = client
                 /\ hist'.n = hist.n
           /\ (v \notin DOMAIN client.keystore /\ call'.op = "get_or_create_key")
              => /\ hist'.n = hist.n + 1
                 /\ client'.keystore = Upsert(client.keystore, v, hist'.n)
                 /\ call'.ret.ok
                    => /\ call'.ret.key = hist'.n
                       /\ client'.db =
                            Upsert(client.db, v, [key |-> hist'.n, records |-> {}])
                 /\ ~call'.ret.ok => client'.db = client.db
           /\ \A w \in VaultIds : Cardinality(hist'.returned[w]) <= 1 ]_vars

\* get_or_create_key returned the first key for its vault after a second key
\* had been generated for the other vault.
C14_Witness ==
    /\ call.op = "get_or_create_key" /\ call.known
    /\ call.ret = Ok(1)
    /\ hist.n = 2
    /\ hist.returned[call.arg] = {1}

\* C17: clear_cache empties vaults and leaves the key store, the db, the store
\* and the client id as they were; get_key still returns every key the key
\* store held.
C17_ClearCacheFrame ==
    [][ call'.op = "clear_cache"
        => /\ client'.vaults = {}
           /\ client' = [client EXCEPT !.vaults = {}]
           /\ hist' = hist
           /\ \A v \in DOMAIN client.keystore, env \in Envs(hist.n + 1) :
                 get_key(client', v, env).result = Ok(client.keystore[v]) ]_vars

\* clear_cache was called on a client with vaults, keys, an initialized vault
\* and a store entry.
C17_Witness ==
    /\ call.op = "clear_cache" /\ call.known
    /\ client.vaults = {}
    /\ client.keystore # KeyStore_new
    /\ client.db # DbView_new
    /\ client.store # Cache_new

\* C20: after a successful get_key(v) or get_or_create_key(v) the key store
\* holds the returned key for v; neither call, successful or not, removes or
\* changes the key of any vault the key store knew.
C20_KeyRetention ==
    [][ KeyCall(call')
        => /\ call'.ret.ok
              => /\ KeyStore_vault_exists(client'.keystore, call'.arg)
                 /\ client'.keystore[call'.arg] = call'.ret.key
           /\ \A v \in DOMAIN client.keystore :
                 /\ KeyStore_vault_exists(client'.keystore, v)
                 /\ client'.keystore[v] = client.keystore[v] ]_vars

\* get_key succeeded although the lookup took the entry out of the key store:
\* the key is back in the store.
C20_Witness ==
    /\ call.op = "get_key" /\ call.ret.ok
    /\ call.env.taken
    /\ KeyStore_vault_exists(client.keystore, call.arg)
    /\ client.keystore[call.arg] = call.ret.key

\* C21: every vault id that has a key in the key store has an initialized
\* vault in the db under that key, and after a get_or_create_key(v) that
\* failed because the vault could not be initialized the key store holds no
\* key for v.
C21_KeyStoreDbInStep ==
    /\ \A v \in DOMAIN client.keystore :
          v \in DOMAIN client.db /\ client.db[v].key = client.keystore[v]
    /\ (call.op = "get_or_create_key" /\ call.ret = Err("InitVault"))
          => ~KeyStore_vault_exists(client.keystore, call.arg)

\* get_or_create_key failed on init_vault for a vault id the key store did not
\* know: the key store holds the generated key, the db has no vault for it.
C21_Witness ==
    /\ call.op = "get_or_create_key" /\ ~call.known
    /\ call.ret = Err("InitVault")
    /\ KeyStore_vault_exists(client.keystore, call.arg)
    /\ client.keystore[call.arg] = call.env.fresh
    /\ call.arg \notin DOMAIN client.db

(***************************************************************************)
(* Properties of alphabetical, checked under AlphaSpec.                     *)
(***************************************************************************)
\* The i-th name (i from 0) of the sequence A, B, ..., Z, AA, AB, AC, ...
RECURSIVE AlphaName(_)
AlphaName(i) ==
    IF i < radix THEN <<alpha[i + 1]>>
    ELSE Append(AlphaName((i \div radix) - 1), alpha[(i % radix) + 1])

\* C22: alphabetical(count) yields exactly count strings, the i-th of them
\* the i-th name of A, B, ..., Z, AA, AB, ..., and the strings are pairwise
\* distinct.
C22_AlphabeticalNames ==
    /\ iter.pc \in {"iter", "done"} =>
          /\ Len(iter.yielded) = iter.i
          /\ \A j \in 1..Len(iter.yielded) : iter.yielded[j] = AlphaName(j - 1)
          /\ \A j, k \in 1..Len(iter.yielded) :
                j # k => iter.yielded[j] # iter.yielded[k]
    /\ iter.pc = "done" => Len(iter.yielded) = iter.count

\* alphabetical(27) was run to its end: it yielded 27 strings, the first and
\* the last of them both "AA".
C22_Witness ==
    /\ iter.pc = "done"
    /\ iter.count = 27
    /\ Len(iter.yielded) = 27
    /\ iter.yielded[1] = <<"A", "A">>
    /\ iter.yielded[27] = <<"A", "A">>

====
